---- MODULE Spec2Model ----
(***************************************************************************)
(* State-machine model of tfd_search.py: the cache-or-fetch data layer,    *)
(* the menu loop of main(), the search / disambiguation handlers and the   *)
(* firearm-attack table and CSV row projections.                           *)
(***************************************************************************)
EXTENDS Integers, Sequences, FiniteSets, TLC

\* Longest search term the operator types (besides the 'exit' keyword).
MaxTermLen == 2

----------------------------------------------------------------------------
\* Cache files and endpoints.

CACHE_FILE == "weapon.json"
STAT_CACHE_FILE == "stat.json"
MODULE_CACHE_FILE == "module.json"
WEAPON_JSON_URL == "meta/en/weapon.json"
STAT_JSON_URL == "meta/en/stat.json"
MODULE_JSON_URL == "meta/en/module.json"

\* The order in which load_data and refresh_cache go through the datasets.
CacheFiles == <<CACHE_FILE, STAT_CACHE_FILE, MODULE_CACHE_FILE>>
Urls == <<WEAPON_JSON_URL, STAT_JSON_URL, MODULE_JSON_URL>>

\* The endpoint's content changes over time: two editions of every dataset.
Versions == {1, 2}

Firearm(t, v) == [firearm_atk_type |-> t, firearm_atk_value |-> v]
LevelInfo(l, f) == [level |-> l, firearm |-> f]
BaseStat(t, v) == [stat_id |-> t, stat_value |-> v]
Weapon(name, id, base, atk) ==
    [weapon_name |-> name, weapon_id |-> id, weapon_type |-> "Handgun",
     weapon_tier |-> "Rare", weapon_rounds_type |-> "General Rounds",
     base_stat |-> base, firearm_atk |-> atk]
ModuleStat(l, c, v) == [level |-> l, module_capacity |-> c, value |-> v]
Module(name, id, stats) ==
    [module_name |-> name, module_id |-> id, module_stat |-> stats]
Stat(id, name) == [stat_id |-> id, stat_name |-> name]

WeaponBody(v) ==
    IF v = 1
    THEN << Weapon(<<"A", "b">>, "w1", << BaseStat("501", 3), BaseStat("999", 1) >>,
                   << LevelInfo(1, << Firearm("501", 10), Firearm("502", 5) >>),
                      LevelInfo(31, << Firearm("501", 20) >>),
                      LevelInfo(91, << Firearm("999", 7), Firearm("501", 30) >>),
                      LevelInfo(121, << Firearm("501", 40) >>) >>),
            Weapon(<<"a">>, "w2", << BaseStat("502", 2) >>,
                   << LevelInfo(30, << Firearm("501", 11) >>),
                      LevelInfo(120, << Firearm("502", 12) >>),
                      LevelInfo(160, << Firearm("501", 13) >>) >>) >>
    ELSE << Weapon(<<"b", "A">>, "w3", << BaseStat("501", 4) >>,
                   << LevelInfo(90, << Firearm("502", 21) >>),
                      LevelInfo(61, << Firearm("501", 22), Firearm("502", 23) >>),
                      LevelInfo(60, << Firearm("501", 24) >>) >>),
            Weapon(<<"A", "b">>, "w1", << BaseStat("501", 5) >>,
                   << LevelInfo(1, << Firearm("501", 15) >>),
                      LevelInfo(121, << Firearm("501", 45) >>) >>) >>

StatBody(v) ==
    IF v = 1
    THEN << Stat("501", "Critical Hit Rate"), Stat("502", "Fire ATK") >>
    ELSE << >>

ModuleBody(v) ==
    IF v = 1
    THEN << Module(<<"A", "b">>, "m1", << ModuleStat(0, 6, "+1%") >>),
            Module(<<"A", "b">>, "m2", << ModuleStat(0, 4, "+2%"), ModuleStat(1, 5, "+3%") >>),
            Module(<<"b">>, "m3", << ModuleStat(0, 7, "+4%") >>) >>
    ELSE << Module(<<"b">>, "m3", << ModuleStat(0, 7, "+5%") >>),
            Module(<<"a", " ">>, "m4", << ModuleStat(0, 2, "+6%") >>) >>

\* response.json() of a successful GET of url when the endpoint serves edition v.
Remote(url, v) ==
    IF url = WEAPON_JSON_URL THEN WeaponBody(v)
    ELSE IF url = STAT_JSON_URL THEN StatBody(v)
    ELSE ModuleBody(v)

\* Outcomes of requests.get / raise_for_status / response.json that raise.
FetchErrors == {"ConnectionError", "HTTPError", "JSONDecodeError"}

----------------------------------------------------------------------------
\* json.dump / json.load.  A cache file is the sequence of chunks json.dump
\* has handed to file.write so far.

RECURSIVE Items(_)
Items(data) ==
    IF Len(data) = 0 THEN << >>
    ELSE IF Len(data) = 1 THEN << [t |-> "rec", v |-> data[1]] >>
    ELSE << [t |-> "rec", v |-> data[1]], [t |-> "sep"] >> \o Items(Tail(data))

Dump(data) == << [t |-> "open"] >> \o Items(data) \o << [t |-> "close"] >>

\* The records of a well-formed item list, or the marker <<FALSE>>.
RECURSIVE ParseItems(_)
ParseItems(toks) ==
    IF Len(toks) = 0 THEN << FALSE >>
    ELSE IF toks[1].t # "rec" THEN << FALSE >>
    ELSE IF Len(toks) = 1 THEN << TRUE, << toks[1].v >> >>
    ELSE IF toks[2].t # "sep" THEN << FALSE >>
    ELSE LET rest == ParseItems(SubSeq(toks, 3, Len(toks)))
         IN  IF rest[1] THEN << TRUE, << toks[1].v >> \o rest[2] >> ELSE << FALSE >>

\* json.load: <<TRUE, data>>, or <<FALSE>> where it raises JSONDecodeError.
Parse(toks) ==
    IF Len(toks) < 2 THEN << FALSE >>
    ELSE IF toks[1].t # "open" \/ toks[Len(toks)].t # "close" THEN << FALSE >>
    ELSE IF Len(toks) = 2 THEN << TRUE, << >> >>
    ELSE ParseItems(SubSeq(toks, 2, Len(toks) - 1))

\* A cache file: absent, or present with the chunks written so far.
Absent == [exists |-> FALSE, content |-> << >>]
Present(toks) == [exists |-> TRUE, content |-> toks]

\* {item["stat_id"]: item["stat_name"] for item in data}; a later item wins.
StatMapOf(data) ==
    [id \in {data[i].stat_id : i \in 1..Len(data)} |->
        LET last == CHOOSE i \in 1..Len(data) :
                        /\ data[i].stat_id = id
                        /\ \A j \in (i+1)..Len(data) : data[j].stat_id # id
        IN  data[last].stat_name]

----------------------------------------------------------------------------
\* Strings the operator types: sequences of characters.

Alphabet == {"a", "A", "b", " "}
ExitWords == { <<"e", "x", "i", "t">>, <<"E", "x", "i", "T">> }

LowerChar(c) ==
    CASE c = "A" -> "a"
      [] c = "E" -> "e"
      [] c = "T" -> "t"
      [] OTHER -> c

Lower(s) == [i \in 1..Len(s) |-> LowerChar(s[i])]

RECURSIVE LStrip(_)
LStrip(s) == IF Len(s) > 0 /\ s[1] = " " THEN LStrip(Tail(s)) ELSE s
RECURSIVE RStrip(_)
RStrip(s) ==
    IF Len(s) > 0 /\ s[Len(s)] = " " THEN RStrip(SubSeq(s, 1, Len(s) - 1)) ELSE s
Strip(s) == RStrip(LStrip(s))

\* needle in hay
Contains(hay, needle) ==
    \E i \in 0..(Len(hay) - Len(needle)) : SubSeq(hay, i + 1, i + Len(needle)) = needle

search_items(items, search_term, key) ==
    SelectSeq(items, LAMBDA item : Contains(Lower(item[key]), Lower(search_term)))

SeqsUpTo(n) == UNION { [1..k -> Alphabet] : k \in 0..n }
Terms == SeqsUpTo(MaxTermLen) \cup ExitWords

----------------------------------------------------------------------------
\* Stat projection.

StatName(stat_map, id) ==
    IF id \in DOMAIN stat_map THEN stat_map[id] ELSE "Unknown Stat (" \o id \o ")"

attack_ranges == << <<1, 30>>, <<31, 60>>, <<61, 90>>, <<91, 120>>, <<121, 160>> >>

RECURSIVE FirearmRows(_, _, _)
FirearmRows(level, firearms, stat_map) ==
    IF Len(firearms) = 0 THEN << >>
    ELSE << << ToString(level),
               StatName(stat_map, firearms[1].firearm_atk_type),
               ToString(firearms[1].firearm_atk_value) >> >>
         \o FirearmRows(level, Tail(firearms), stat_map)

RECURSIVE AttackRows(_, _, _, _)
AttackRows(levels, stat_map, start_level, end_level) ==
    IF Len(levels) = 0 THEN << >>
    ELSE LET level == levels[1].level
         IN  (IF start_level <= level /\ level <= end_level
              THEN FirearmRows(level, levels[1].firearm, stat_map)
              ELSE << >>)
             \o AttackRows(Tail(levels), stat_map, start_level, end_level)

ExclusiveEndTable(weapon, stat_map, start_level, end_level) ==
    AttackRows(weapon.firearm_atk, stat_map, start_level, end_level - 1)

create_firearm_attack_table(weapon, stat_map, start_level, end_level) ==
    AttackRows(weapon.firearm_atk, stat_map, start_level, end_level)

RECURSIVE BaseRows(_, _)
BaseRows(stats, stat_map) ==
    IF Len(stats) = 0 THEN << >>
    ELSE << << StatName(stat_map, stats[1].stat_id), ToString(stats[1].stat_value) >> >>
         \o BaseRows(Tail(stats), stat_map)

create_base_stats_table(weapon, stat_map) ==
    << <<"Weapon ID", weapon.weapon_id>>,
       <<"Weapon Type", weapon.weapon_type>>,
       <<"Weapon Tier", weapon.weapon_tier>>,
       <<"Rounds Type", weapon.weapon_rounds_type>> >>
    \o BaseRows(weapon.base_stat, stat_map)

RECURSIVE ModuleRows(_, _)
ModuleRows(stats, blank) ==
    IF Len(stats) = 0 THEN << >>
    ELSE << << ToString(stats[1].level), ToString(stats[1].module_capacity),
               stats[1].value >> >>
         \o (IF blank THEN << <<"", "", "">> >> ELSE << >>)
         \o ModuleRows(Tail(stats), blank)

create_module_stats_table(module) == ModuleRows(module.module_stat, TRUE)

\* All firearm rows of the csv loop (lines 214-223): no level test.
RECURSIVE CsvAttackRows(_, _)
CsvAttackRows(levels, stat_map) ==
    IF Len(levels) = 0 THEN << >>
    ELSE FirearmRows(levels[1].level, levels[1].firearm, stat_map)
         \o CsvAttackRows(Tail(levels), stat_map)

\* stat_map is << >> for None and <<map>> otherwise; "if stat_map" is the
\* truth value of the dict: false for None and for the empty dict.
Truthy(stat_map) == Len(stat_map) > 0 /\ DOMAIN stat_map[1] # {}

prepare_csv_rows(data, stat_map) ==
    IF "weapon_id" \in DOMAIN data
    THEN << <<"Weapon ID", data.weapon_id>>,
            <<"Weapon Type", data.weapon_type>>,
            <<"Weapon Tier", data.weapon_tier>>,
            <<"Rounds Type", data.weapon_rounds_type>>,
            << >> >>
         \o (IF Truthy(stat_map)
             THEN << <<"Base Stats">> >>
                  \o BaseRows(data.base_stat, stat_map[1])
                  \o << << >>, <<"Firearm Attack (1-160)">>, <<"Level", "Type", "Value">> >>
                  \o CsvAttackRows(data.firearm_atk, stat_map[1])
             ELSE << >>)
    ELSE << <<"Module Name", data.module_name>>,
            << >>,
            <<"Level", "Capacity", "Value">> >>
         \o ModuleRows(data.module_stat, FALSE)

----------------------------------------------------------------------------
\* f"{start}-{end}" and map(int, choice.split("-")) of display_weapon_info.

Digit(d) ==
    CASE d = 0 -> "0" [] d = 1 -> "1" [] d = 2 -> "2" [] d = 3 -> "3" [] d = 4 -> "4"
      [] d = 5 -> "5" [] d = 6 -> "6" [] d = 7 -> "7" [] d = 8 -> "8" [] OTHER -> "9"

DigitValue(c) == CHOOSE d \in 0..9 : Digit(d) = c

RECURSIVE Digits(_)
Digits(n) == IF n < 10 THEN << Digit(n) >> ELSE Digits(n \div 10) \o << Digit(n % 10) >>

RECURSIVE ParseInt(_)
ParseInt(s) ==
    IF Len(s) = 0 THEN 0
    ELSE 10 * ParseInt(SubSeq(s, 1, Len(s) - 1)) + DigitValue(s[Len(s)])

options == [i \in 1..Len(attack_ranges) |->
               Digits(attack_ranges[i][1]) \o << "-" >> \o Digits(attack_ranges[i][2])]

\* choice.split("-"), for a choice holding one "-"
Split(choice) ==
    LET k == CHOOSE i \in 1..Len(choice) : choice[i] = "-"
    IN  << ParseInt(SubSeq(choice, 1, k - 1)), ParseInt(SubSeq(choice, k + 1, Len(choice))) >>

----------------------------------------------------------------------------
VARIABLES
    pc,           \* where the process is
    status,       \* "running", "exited" (clean exit) or "fault" (traceback)
    fault,        \* the exception last raised, "" if none
    out,          \* the last message printed since the screen was cleared
    phase,        \* "init" (load_data of line 372), "refresh" (refresh_cache),
                  \* "reload" (load_data of line 302), "menu", "harness"
    ds,           \* index of the dataset being loaded or fetched, 0 if none
    files,        \* the cache directory: cache file -> Absent / Present(chunks)
    buf,          \* fetch_and_cache_json's data: << >> or <<data>>
    loaded,       \* load_data's locals so far: weapons, stat_map, modules
    data,         \* main's data: << >> before load_data returns, else <<dict>>
    flow,         \* "weapon" / "module" while a search handler runs, else ""
    search_term,  \* << >> for None or not asked, else <<term>>
    results,      \* search_items' result
    pick,         \* << >> no selection prompt answered, <<0>> cancelled, <<i>> i-th entry
    item,         \* the weapon / module handed to display_*_info: << >> or <<record>>
    window,       \* << >> or << <<start, end>> >>
    shown,        \* the tables printed since the screen was cleared
    rows,         \* export_json_to_csv's rows: << >> or <<rows>>
    fetches,      \* requests.get calls issued by the current refresh_cache
    fetched,      \* the data the fetches of the current refresh_cache returned
    before,       \* << >>, or <<files>> as they were when refresh_cache started
    returned      \* cache file -> what the last (at most two) load calls returned

vars == << pc, status, fault, out, phase, ds, files, buf, loaded, data, flow,
           search_term, results, pick, item, window, shown, rows, fetches,
           fetched, before, returned >>

ldVars == << phase, ds, buf, loaded, data >>
flowVars == << flow, search_term, results, pick, item, window, shown, rows >>
refreshVars == << fetches, fetched, before >>

\* load_data: load_weapon_data, load_stat_data, load_module_data.
LoadTargets ==
    << [url |-> WEAPON_JSON_URL, file |-> CACHE_FILE],
       [url |-> STAT_JSON_URL, file |-> STAT_CACHE_FILE],
       [url |-> MODULE_JSON_URL, file |-> MODULE_CACHE_FILE] >>

SwappedRefreshTargets ==
    << [url |-> WEAPON_JSON_URL, file |-> CACHE_FILE],
       [url |-> STAT_JSON_URL, file |-> STAT_CACHE_FILE],
       [url |-> MODULE_JSON_URL, file |-> STAT_CACHE_FILE] >>

\* refresh_cache: the three fetch_and_cache_json calls.
RefreshTargets ==
    << [url |-> WEAPON_JSON_URL, file |-> CACHE_FILE],
       [url |-> STAT_JSON_URL, file |-> STAT_CACHE_FILE],
       [url |-> MODULE_JSON_URL, file |-> MODULE_CACHE_FILE] >>

Target == IF phase = "refresh" THEN RefreshTargets[ds] ELSE LoadTargets[ds]

FileNames == {CACHE_FILE, STAT_CACHE_FILE, MODULE_CACHE_FILE}

\* What a complete earlier run leaves of dataset i: nothing, or one edition.
FileChoices(i) == {Absent} \cup { Present(Dump(Remote(Urls[i], v))) : v \in Versions }

InitFiles ==
    { f \in [FileNames -> UNION { FileChoices(i) : i \in 1..3 }] :
        \A i \in 1..3 : f[CacheFiles[i]] \in FileChoices(i) }

NoLocals ==
    /\ flow = "" /\ search_term = << >> /\ results = << >> /\ pick = << >>
    /\ item = << >> /\ window = << >> /\ shown = << >> /\ rows = << >>

\* Process start: main() calls load_data(); the cache directory is whatever
\* earlier complete runs left.
Init ==
    /\ pc = "load" /\ status = "running" /\ fault = "" /\ out = "Loading data..."
    /\ phase = "init" /\ ds = 1 /\ buf = << >> /\ loaded = << >> /\ data = << >>
    /\ files \in InitFiles
    /\ NoLocals
    /\ fetches = 0 /\ fetched = << >> /\ before = << >>
    /\ returned = [f \in FileNames |-> << >>]

----------------------------------------------------------------------------
\* An exception leaving the current call.  main() catches KeyboardInterrupt
\* alone, and only around the while loop (lines 374-398): load_data() of line
\* 372 is outside the try.  Anything else ends the process with a traceback.
Raise(exc) ==
    IF phase = "harness"
    THEN pc' = "idle" /\ status' = status /\ fault' = exc /\ out' = out
    ELSE IF exc = "KeyboardInterrupt" /\ phase # "init"
    THEN pc' = "done" /\ status' = "exited" /\ fault' = exc /\ out' = "Exiting."
    ELSE pc' = "done" /\ status' = "fault" /\ fault' = exc /\ out' = out

Remember(f, value, how) ==
    LET r == Append(returned[f], [value |-> value, how |-> how])
    IN  [returned EXCEPT ![f] = IF Len(r) > 2 THEN Tail(r) ELSE r]

\* load_*_data returns value to load_data (lines 287-297), or to the caller
\* of a single load.
ReturnLoad(value, how) ==
    LET v == IF ds = 2 THEN StatMapOf(value) ELSE value
        l == Append(loaded, v)
    IN  IF phase = "harness"
        THEN /\ returned' = Remember(Target.file, v, how)
             /\ pc' = "idle" /\ ds' = 0
             /\ UNCHANGED << status, fault, out, phase, loaded, data >>
        ELSE IF ds < 3
        THEN /\ loaded' = l /\ ds' = ds + 1 /\ pc' = "load"
             /\ UNCHANGED << status, fault, out, phase, data, returned >>
        ELSE /\ data' = << [weapons |-> l[1], stat_map |-> l[2], modules |-> l[3],
                            weapon_names |-> [i \in 1..Len(l[1]) |-> l[1][i].weapon_name],
                            module_names |-> [i \in 1..Len(l[3]) |-> l[3][i].module_name]] >>
             /\ loaded' = << >> /\ ds' = 0 /\ phase' = "menu" /\ pc' = "loop"
             /\ out' = "Loaded weapons and modules."
             /\ UNCHANGED << status, fault, returned >>

NeverExists(f) == FALSE

\* os.path.exists(cache_file)
Exists(f) == files[f].exists

\* load_*_data, cache miss: call fetch_and_cache_json.
LoadMiss ==
    /\ pc = "load" /\ ~Exists(Target.file)
    /\ pc' = "fetch"
    /\ UNCHANGED << status, fault, out, ldVars, files, flowVars, refreshVars, returned >>

\* load_*_data, cache hit: load_json_from_cache parses the file.
LoadHit ==
    /\ pc = "load" /\ Exists(Target.file)
    /\ Parse(files[Target.file].content)[1]
    /\ ReturnLoad(Parse(files[Target.file].content)[2], "hit")
    /\ UNCHANGED << files, buf, flowVars, refreshVars >>

\* load_*_data, the file exists and json.load raises.
LoadCorrupt ==
    /\ pc = "load" /\ Exists(Target.file)
    /\ ~Parse(files[Target.file].content)[1]
    /\ Raise("json.JSONDecodeError")
    /\ UNCHANGED << ldVars, files, flowVars, refreshVars, returned >>

\* fetch_and_cache_json lines 36-38, the endpoint answers with edition v.
FetchOk(v) ==
    /\ pc = "fetch"
    /\ buf' = << Remote(Target.url, v) >>
    /\ pc' = "write_open"
    /\ fetches' = IF phase = "refresh" THEN fetches + 1 ELSE fetches
    /\ fetched' = IF phase = "refresh" THEN Append(fetched, Remote(Target.url, v)) ELSE fetched
    /\ UNCHANGED << status, fault, out, phase, ds, loaded, data, files, flowVars,
                    before, returned >>

\* fetch_and_cache_json lines 36-38 raise.
FetchFail(e) ==
    /\ pc = "fetch"
    /\ fetches' = IF phase = "refresh" THEN fetches + 1 ELSE fetches
    /\ Raise(e)
    /\ UNCHANGED << ldVars, files, flowVars, fetched, before, returned >>

\* open(cache_file, "w") creates or truncates the file.
WriteOpen ==
    /\ pc = "write_open"
    /\ files' = [files EXCEPT ![Target.file] = Present(<< >>)]
    /\ pc' = "write"
    /\ UNCHANGED << status, fault, out, ldVars, flowVars, refreshVars, returned >>

\* json.dump writes the next chunk.
WriteChunk ==
    /\ pc = "write"
    /\ Len(files[Target.file].content) < Len(Dump(buf[1]))
    /\ files' = [files EXCEPT ![Target.file] =
                    Present(Append(@.content, Dump(buf[1])[Len(@.content) + 1]))]
    /\ UNCHANGED << pc, status, fault, out, ldVars, flowVars, refreshVars, returned >>

\* The with block ends and fetch_and_cache_json returns data.
WriteClose ==
    /\ pc = "write"
    /\ Len(files[Target.file].content) >= Len(Dump(buf[1]))
    /\ buf' = << >>
    /\ IF phase = "refresh"
       THEN /\ IF ds < 3
               THEN pc' = "fetch" /\ ds' = ds + 1 /\ out' = out
               ELSE pc' = "refresh_wait" /\ ds' = 0 /\ out' = "Cache refreshed."
            /\ UNCHANGED << status, fault, phase, loaded, data, returned >>
       ELSE ReturnLoad(buf[1], "miss")
    /\ UNCHANGED << files, flowVars, refreshVars >>

\* Ctrl-C while the process computes or waits for the network or the disk
\* (the questionary prompts turn Ctrl-C into the answer None instead).
Interrupt ==
    /\ pc \in {"load", "fetch", "write_open", "write"}
    /\ Raise("KeyboardInterrupt")
    /\ UNCHANGED << ldVars, files, flowVars, refreshVars, returned >>

----------------------------------------------------------------------------
\* main's loop and the handlers.  A prompt's answer << >> is None: the
\* operator cancelled the prompt.

ResetLocals ==
    /\ flow' = "" /\ search_term' = << >> /\ results' = << >> /\ pick' = << >>
    /\ item' = << >> /\ window' = << >> /\ shown' = << >> /\ rows' = << >>

\* Top of the while loop: clear_screen(), then the menu prompt is shown.
ClearScreen ==
    /\ pc = "loop"
    /\ pc' = "menu" /\ out' = ""
    /\ ResetLocals
    /\ UNCHANGED << status, fault, ldVars, files, refreshVars, returned >>

MenuChoices == {"Search Weapons", "Search Modules", "Refresh Cache", "Exit", "None"}

\* The menu prompt is answered (lines 377-395, up to the handler's first prompt).
Menu(choice) ==
    /\ pc = "menu"
    /\ CASE choice \in {"Exit", "None"} ->
              /\ out' = "Exiting." /\ status' = "exited" /\ pc' = "done"
              /\ UNCHANGED << fault, ldVars, flowVars, refreshVars >>
         [] choice = "Refresh Cache" ->
              /\ out' = "Refreshing cache..." /\ pc' = "fetch"
              /\ phase' = "refresh" /\ ds' = 1
              /\ fetches' = 0 /\ fetched' = << >> /\ before' = << files >>
              /\ UNCHANGED << status, fault, buf, loaded, data, flowVars >>
         [] choice = "Search Weapons" ->
              /\ pc' = "term" /\ flow' = "weapon"
              /\ UNCHANGED << status, fault, out, ldVars, search_term, results, pick,
                              item, window, shown, rows, refreshVars >>
         [] OTHER ->
              /\ pc' = "term" /\ flow' = "module"
              /\ UNCHANGED << status, fault, out, ldVars, search_term, results, pick,
                              item, window, shown, rows, refreshVars >>
    /\ UNCHANGED << files, returned >>

\* refresh_cache's "Press enter" prompt is answered; handle_refresh_cache
\* goes on to load_data().
RefreshAck ==
    /\ pc = "refresh_wait"
    /\ pc' = "load" /\ phase' = "reload" /\ ds' = 1 /\ out' = "Loading data..."
    /\ fetches' = 0 /\ fetched' = << >> /\ before' = << >>
    /\ UNCHANGED << status, fault, buf, loaded, data, files, flowVars, returned >>

NoCheck(term) == FALSE

\* not search_term.strip()
IsBlank(term) == Strip(term) = << >>

NameKey == IF flow = "weapon" THEN "weapon_name" ELSE "module_name"

\* next(x for x in results if x[name] == selected): <<x>>, or << >> where the
\* generator is exhausted and next raises StopIteration.  selected is << >>
\* for None, which equals no name.
FirstNamed(rs, key, selected) ==
    LET hits == { i \in 1..Len(rs) : selected # << >> /\ rs[i][key] = selected[1] }
    IN  IF hits = {} THEN << >>
        ELSE << rs[CHOOSE i \in hits : \A j \in hits : i <= j] >>

\* display_module_info up to its prompt, display_weapon_info's first prompt.
Display(it) ==
    /\ item' = << it >>
    /\ IF flow = "weapon"
       THEN pc' = "window" /\ shown' = shown
       ELSE pc' = "next" /\ shown' = << create_module_stats_table(it) >>

\* handle_search_weapons / handle_search_modules: the term prompt is answered.
SearchTerm(ans) ==
    /\ pc = "term"
    /\ search_term' = ans
    /\ IF ans = << >> \/ Lower(ans[1]) = <<"e", "x", "i", "t">>
       THEN /\ out' = "Exiting." /\ pc' = "loop"
            /\ UNCHANGED << results, item, shown >>
       ELSE IF IsBlank(ans[1])
       THEN /\ out' = "Search term cannot be empty. Please try again." /\ pc' = "loop"
            /\ UNCHANGED << results, item, shown >>
       ELSE LET all == IF flow = "weapon" THEN data[1].weapons ELSE data[1].modules
                rs == search_items(all, ans[1], NameKey)
            IN  /\ results' = rs
                /\ IF Len(rs) = 0
                   THEN out' = "No items found matching the term." /\ pc' = "loop"
                        /\ UNCHANGED << item, shown >>
                   ELSE IF Len(rs) > 1
                   THEN out' = out /\ pc' = "select" /\ UNCHANGED << item, shown >>
                   ELSE out' = out /\ Display(rs[1])
    /\ UNCHANGED << status, fault, ldVars, files, flow, pick, window, rows,
                    refreshVars, returned >>

\* The selection prompt is answered: p = 0 is a cancellation, else the p-th
\* of the names listed.
Select(p) ==
    /\ pc = "select"
    /\ p \in 0..Len(results)
    /\ pick' = << p >>
    /\ LET selected == IF p = 0 THEN << >> ELSE << results[p][NameKey] >>
           found == FirstNamed(results, NameKey, selected)
       IN  IF found = << >>
           THEN Raise("StopIteration") /\ UNCHANGED << item, shown >>
           ELSE Display(found[1]) /\ UNCHANGED << status, fault, out >>
    /\ UNCHANGED << ldVars, files, flow, search_term, results, window, rows,
                    refreshVars, returned >>

\* display_weapon_info: the level-range prompt is answered; c = 0 is Back or
\* a cancellation, else the c-th option.
Window(c) ==
    /\ pc = "window"
    /\ c \in 0..Len(options)
    /\ IF c = 0
       THEN pc' = "loop" /\ UNCHANGED << window, shown >>
       ELSE LET se == Split(options[c])
            IN  /\ window' = << se >>
                /\ shown' = << create_base_stats_table(item[1], data[1].stat_map),
                               create_firearm_attack_table(item[1], data[1].stat_map,
                                                           se[1], se[2]) >>
                /\ pc' = "next"
    /\ UNCHANGED << status, fault, out, ldVars, files, flow, search_term, results,
                    pick, item, rows, refreshVars, returned >>

NextChoices == {"Return to main menu", "Output to CSV", "None"}

\* "What would you like to do next?" is answered.
NextAction(a) ==
    /\ pc = "next"
    /\ pc' = IF a = "Output to CSV" THEN "export_dir" ELSE "loop"
    /\ UNCHANGED << status, fault, out, ldVars, files, flowVars, refreshVars, returned >>

\* get_output_directory: ok is false for None or the empty answer.
ExportDir(ok) ==
    /\ pc = "export_dir"
    /\ IF ok THEN pc' = "export_name" /\ out' = out
       ELSE pc' = "loop" /\ out' = "Invalid directory. Returning to main menu."
    /\ UNCHANGED << status, fault, ldVars, files, flowVars, refreshVars, returned >>

\* get_csv_file_path, then export_json_to_csv lines 271-280; written is false
\* where open or the csv writer raises.
ExportName(ok, written) ==
    /\ pc = "export_name"
    /\ IF ~ok
       THEN pc' = "loop" /\ out' = "Invalid file name. Returning to main menu."
            /\ rows' = rows
       ELSE /\ rows' = << prepare_csv_rows(item[1],
                             IF flow = "weapon" THEN << data[1].stat_map >> ELSE << >>) >>
            /\ out' = IF written THEN "Data successfully exported."
                      ELSE "Failed to export data to CSV."
            /\ pc' = "export_wait"
    /\ UNCHANGED << status, fault, ldVars, files, flow, search_term, results, pick,
                    item, window, shown, refreshVars, returned >>

\* export_json_to_csv's "Press enter" prompt is answered.
ExportAck ==
    /\ pc = "export_wait"
    /\ pc' = "loop"
    /\ UNCHANGED << status, fault, out, ldVars, files, flowVars, refreshVars, returned >>

\* The process has ended; the operator starts the program again.  Only the
\* cache directory survives.
Restart ==
    /\ pc = "done"
    /\ pc' = "load" /\ status' = "running" /\ fault' = "" /\ out' = "Loading data..."
    /\ phase' = "init" /\ ds' = 1 /\ buf' = << >> /\ loaded' = << >> /\ data' = << >>
    /\ ResetLocals
    /\ fetches' = 0 /\ fetched' = << >> /\ before' = << >>
    /\ UNCHANGED << files, returned >>

Next ==
    \/ LoadMiss \/ LoadHit \/ LoadCorrupt
    \/ \E v \in Versions : FetchOk(v)
    \/ \E e \in FetchErrors : FetchFail(e)
    \/ WriteOpen \/ WriteChunk \/ WriteClose
    \/ Interrupt
    \/ ClearScreen
    \/ \E choice \in MenuChoices : Menu(choice)
    \/ RefreshAck
    \/ \E t \in Terms : SearchTerm(<< t >>)
    \/ SearchTerm(<< >>)
    \/ \E p \in 0..3 : Select(p)
    \/ \E c \in 0..5 : Window(c)
    \/ \E a \in NextChoices : NextAction(a)
    \/ \E ok \in BOOLEAN : ExportDir(ok)
    \/ \E ok, written \in BOOLEAN : ExportName(ok, written)
    \/ ExportAck
    \/ Restart

Spec == Init /\ [][Next]_vars

----------------------------------------------------------------------------
\* A session that calls the three load functions any number of times and
\* never refresh_cache.  It starts from any cache directory a run can leave,
\* a file truncated by an interrupted write included.

HarnessFiles ==
    { f \in [FileNames -> UNION { FileChoices(i) : i \in 1..3 } \cup { Present(<< >>) }] :
        \A i \in 1..3 : f[CacheFiles[i]] \in FileChoices(i) \cup { Present(<< >>) } }

LoadInit ==
    /\ pc = "idle" /\ status = "running" /\ fault = "" /\ out = ""
    /\ phase = "harness" /\ ds = 0 /\ buf = << >> /\ loaded = << >> /\ data = << >>
    /\ files \in HarnessFiles
    /\ NoLocals
    /\ fetches = 0 /\ fetched = << >> /\ before = << >>
    /\ returned = [f \in FileNames |-> << >>]

\* load_weapon_data(), load_stat_data() or load_module_data() is called.
CallLoad(i) ==
    /\ pc = "idle"
    /\ pc' = "load" /\ ds' = i /\ fault' = ""
    /\ UNCHANGED << status, out, phase, buf, loaded, data, files, flowVars,
                    refreshVars, returned >>

LoadNext ==
    \/ \E i \in 1..3 : CallLoad(i)
    \/ LoadMiss \/ LoadHit \/ LoadCorrupt
    \/ \E v \in Versions : FetchOk(v)
    \/ \E e \in FetchErrors : FetchFail(e)
    \/ WriteOpen \/ WriteChunk \/ WriteClose

LoadSpec == LoadInit /\ [][LoadNext]_vars

----------------------------------------------------------------------------
\* Properties.

FilesParseable ==
    \A f \in FileNames : files[f].exists => Parse(files[f].content)[1]

\* refresh_cache has printed "Cache refreshed." / has been left by a failed fetch.
RefreshReturned == pc = "refresh_wait"
RefreshRaised == status = "fault" /\ phase = "refresh" /\ fault \in FetchErrors

\* Cache file i holds the data the i-th fetch of this refresh returned.
Overwritten(i) ==
    /\ i <= Len(fetched)
    /\ \E v \in Versions : fetched[i] = Remote(Urls[i], v)
    /\ files[CacheFiles[i]] = Present(Dump(fetched[i]))

\* C1 as stated: however its fetches end, refresh_cache has issued exactly
\* three fetches and all three cache files hold the newly fetched data.
C1_AlwaysThreeFetches ==
    (RefreshReturned \/ RefreshRaised) =>
        fetches = 3 /\ \A i \in 1..3 : Overwritten(i)

\* C1 amended: refresh_cache fetches weapons, stats, modules in this order and
\* stops at the first fetch that fails.  When it returns, exactly three
\* fetches were issued and all three cache files hold the newly fetched data,
\* whatever they held before; when the k-th fetch fails, exactly k fetches
\* were issued, the first k-1 files hold the new data and the others are as
\* they were before the refresh.
C1_RefreshUntilFailure ==
    /\ RefreshReturned => fetches = 3 /\ \A i \in 1..3 : Overwritten(i)
    /\ RefreshRaised =>
          /\ fetches = Len(fetched) + 1
          /\ fetches <= 3
          /\ \A i \in 1..3 :
                IF i < fetches THEN Overwritten(i)
                ELSE files[CacheFiles[i]] = before[1][CacheFiles[i]]

C1_Witness ==
    /\ RefreshReturned
    /\ \A f \in FileNames : before[1][f].exists /\ before[1][f] # files[f]

\* C2: whenever a load is about to test a cache file's existence, and after
\* the process has ended (an interruption in the middle of a write included),
\* every cache file is absent or holds a complete parseable dataset.
C2_AtomicWrite == pc \in {"load", "done"} => FilesParseable

\* C3: two calls of the same load function with no refresh between them
\* return the same records, also when the first was a cache miss.
C3_LoadIdempotent ==
    \A f \in FileNames :
        Len(returned[f]) = 2 => returned[f][1].value = returned[f][2].value

C3_Witness ==
    \E f \in FileNames :
        /\ Len(returned[f]) = 2
        /\ returned[f][1].how = "miss" /\ returned[f][2].how = "hit"
        /\ Len(returned[f][1].value) > 0

\* C4: a fetch that fails during Refresh Cache leaves the session running
\* with the datasets loaded before; it does not escape main as a fault.
C4_RefreshFailureHandled ==
    (phase = "refresh" /\ fault \in FetchErrors) =>
        status = "running" /\ data # << >>

\* C5: cancelling the selection prompt returns to the menu loop with nothing
\* selected, nothing displayed and no exception.
C5_CancelIsAbort ==
    pick = << 0 >> =>
        /\ status = "running" /\ fault = "" /\ pc = "loop"
        /\ item = << >> /\ shown = << >>

Rejected(t) == t = << >> \/ Lower(t[1]) = <<"e", "x", "i", "t">> \/ Strip(t[1]) = << >>

\* C6: zero matches give the no-results outcome with nothing selected, one
\* match is selected without a prompt, and with several matches the record
\* displayed is the entry the operator picked from the list.
C6_Resolve ==
    /\ (pc = "loop" /\ ~Rejected(search_term) /\ Len(results) = 0) =>
          out = "No items found matching the term." /\ item = << >> /\ pick = << >>
    /\ (item # << >> /\ Len(results) = 1) => pick = << >> /\ item[1] = results[1]
    /\ (item # << >> /\ Len(results) > 1) =>
          /\ pick # << >>
          /\ pick[1] \in 1..Len(results)
          /\ item[1] = results[pick[1]]

\* C7: an empty (or blank) term is rejected with the empty-term message
\* before any filtering: no match set is produced from it, and no search flow
\* is at the selection, the display or the export with such a term.
C7_EmptyTermRejected ==
    /\ (search_term # << >> /\ Strip(search_term[1]) = << >>) =>
          /\ pc = "loop"
          /\ out = "Search term cannot be empty. Please try again."
          /\ results = << >> /\ item = << >> /\ shown = << >>
    /\ pc \in {"select", "window", "next", "export_dir", "export_name", "export_wait"} =>
          search_term # << >> /\ Strip(search_term[1]) # << >>

C7_Witness ==
    /\ search_term = << << >> >>
    /\ pc = "loop"
    /\ Len(data[1].weapons) > 0 /\ Len(data[1].modules) > 0

\* The (level, attack type) pairs of a progression whose level lies in
\* [lo, hi], in source order, as rows.
Pairs(levels, lo, hi) ==
    { p \in (1..Len(levels)) \X (1..3) :
        /\ p[2] <= Len(levels[p[1]].firearm)
        /\ lo <= levels[p[1]].level /\ levels[p[1]].level <= hi }

Earlier(p, q) == p[1] < q[1] \/ (p[1] = q[1] /\ p[2] < q[2])

ExpectedRows(levels, stat_map, lo, hi) ==
    LET S == Pairs(levels, lo, hi)
    IN  [n \in 1..Cardinality(S) |->
            LET p == CHOOSE p \in S : Cardinality({ q \in S : Earlier(q, p) }) = n - 1
                f == levels[p[1]].firearm[p[2]]
            IN  << ToString(levels[p[1]].level),
                   IF f.firearm_atk_type \in DOMAIN stat_map
                   THEN stat_map[f.firearm_atk_type]
                   ELSE "Unknown Stat (" \o f.firearm_atk_type \o ")",
                   ToString(f.firearm_atk_value) >>]

\* C8: the rows handed to the csv writer for a weapon end with one row per
\* (level, attack type) pair of the whole 1-160 progression, in source order,
\* whatever window was displayed and whatever the stat-name map.
C8_CsvFullRange ==
    (rows # << >> /\ flow = "weapon") =>
        LET exp == ExpectedRows(item[1].firearm_atk, data[1].stat_map, 1, 160)
            n == Len(rows[1])
        IN  /\ Len(exp) > 0
            /\ n >= Len(exp)
            /\ SubSeq(rows[1], n - Len(exp) + 1, n) = exp

\* C9: a KeyboardInterrupt, wherever it is raised, ends the program with the
\* clean exit message and not with an unhandled exception.
C9_InterruptCaught ==
    fault = "KeyboardInterrupt" => status = "exited" /\ out = "Exiting."

\* C10: the firearm-attack table displayed for window [start, end] has exactly
\* one row per (level, attack type) pair with start <= level <= end, in the
\* source's level order and attack-type order, names resolved through the stat
\* map or to "Unknown Stat (id)"; levels 1, 31, 91, 121 with window (91, 120)
\* give the level-91 entries only.
C10_WindowedTable ==
    (flow = "weapon" /\ shown # << >>) =>
        /\ shown[2] = ExpectedRows(item[1].firearm_atk, data[1].stat_map,
                                   window[1][1], window[1][2])
        /\ (/\ item[1] = WeaponBody(1)[1]
            /\ window[1] = << 91, 120 >>
            /\ "501" \in DOMAIN data[1].stat_map) =>
              shown[2] = << << "91", "Unknown Stat (999)", "7" >>,
                            << "91", "Critical Hit Rate", "30" >> >>

C10_Witness ==
    /\ flow = "weapon" /\ shown # << >>
    /\ item # << >> /\ item[1] = WeaponBody(1)[1]
    /\ window = << << 91, 120 >> >>
    /\ "501" \in DOMAIN data[1].stat_map

====
